---- MODULE Spec2Model ----
(***************************************************************************)
(* Model of alexandria/core/filters.py: the three filter classes           *)
(* (JSONValueFilter, ActiveGroupFilter, TagsFilter) and the four FilterSet *)
(* registrations that the filtering framework drives, one filter call per  *)
(* declared field and request.                                             *)
(*                                                                         *)
(* Python objects are tagged records: [t |-> "null"], [t |-> "bool", b],   *)
(* [t |-> "num", n], [t |-> "str", s], [t |-> "list", items],              *)
(* [t |-> "tuple", items], [t |-> "dict", d] and, for a non-empty str that *)
(* is handed to json.loads, [t |-> "text", toks] (its token sequence).     *)
(***************************************************************************)
EXTENDS Integers, Sequences, FiniteSets, TLC

VARIABLES db, user, model, pc, qs, last

vars == <<db, user, model, pc, qs, last>>

(***************************************************************************)
(* Bounds of the model.                                                    *)
(***************************************************************************)
MaxExprs == 2
MaxTagKeys == 2

(***************************************************************************)
(* Python values.                                                          *)
(***************************************************************************)
PyNone == [t |-> "null"]
PyBool(b) == [t |-> "bool", b |-> b]
PyNum(n) == [t |-> "num", n |-> n]
PyStr(s) == [t |-> "str", s |-> s]
PyList(items) == [t |-> "list", items |-> items]
PyTuple(items) == [t |-> "tuple", items |-> items]
PyDict(d) == [t |-> "dict", d |-> d]
PyText(toks) == [t |-> "text", toks |-> toks]

EmptyDict == [k \in {} |-> PyNone]

\* django_filters.constants.EMPTY_VALUES
EMPTY_VALUES == {PyList(<<>>), PyTuple(<<>>), PyDict(EmptyDict), PyStr(""), PyNone}

\* IsEmpty with the test narrowed to `value is None`
IsEmptyOnlyNone(value) == value = PyNone

\* `value in EMPTY_VALUES`
IsEmpty(value) == value \in EMPTY_VALUES

\* The characters of a str.  Strings of one character are their own sequence.
Chars(s) ==
  CASE s = "" -> <<>>
    [] s = "key" -> <<"k", "e", "y">>
    [] s = "value" -> <<"v", "a", "l", "u", "e">>
    [] s = "keyvalue" -> <<"k", "e", "y", "v", "a", "l", "u", "e">>
    [] s = "lookup" -> <<"l", "o", "o", "k", "u", "p">>
    [] s = "exact" -> <<"e", "x", "a", "c", "t">>
    [] s = "contains" -> <<"c", "o", "n", "t", "a", "i", "n", "s">>
    [] s = "bogus" -> <<"b", "o", "g", "u", "s">>
    [] s = "xy" -> <<"x", "y">>
    [] s = "true" -> <<"t", "r", "u", "e">>
    [] s = "false" -> <<"f", "a", "l", "s", "e">>
    [] s = "[1, 2]" -> <<"[", "1", ",", " ", "2", "]">>
    [] OTHER -> <<s>>

\* `a in b` for two str: a is a substring of b
IsSubstr(a, b) ==
  LET A == Chars(a)
      B == Chars(b)
  IN \E i \in 0..(Len(B) - Len(A)) : SubSeq(B, i + 1, i + Len(A)) = A

(***************************************************************************)
(* JSON text.  A text is a sequence of tokens; json.loads is a recursive   *)
(* descent over it, json.dumps is its inverse on the values it can write.  *)
(***************************************************************************)
Punct(c) == [k |-> "p", v |-> c]
StrTok(s) == [k |-> "str", v |-> s]
NumTok(n) == [k |-> "num", n |-> n]
LitTok(w) == [k |-> "lit", v |-> w]

\* order in which the keys of a dict are written
KeyOrder == <<"key", "value", "lookup", "a", "b">>

DictKeys(d) == SelectSeq(KeyOrder, LAMBDA k : k \in DOMAIN d)

RECURSIVE Dumps(_)
RECURSIVE DumpItems(_)
RECURSIVE DumpMembers(_, _)
DumpItems(items) ==
  IF items = <<>> THEN <<>>
  ELSE IF Len(items) = 1 THEN Dumps(items[1])
  ELSE Dumps(items[1]) \o <<Punct(",")>> \o DumpItems(Tail(items))

DumpMembers(d, keys) ==
  IF keys = <<>> THEN <<>>
  ELSE LET m == <<StrTok(keys[1]), Punct(":")>> \o Dumps(d[keys[1]])
       IN IF Len(keys) = 1 THEN m
          ELSE m \o <<Punct(",")>> \o DumpMembers(d, Tail(keys))

Dumps(v) ==
  CASE v.t = "null" -> <<LitTok("null")>>
    [] v.t = "bool" -> <<LitTok(IF v.b THEN "true" ELSE "false")>>
    [] v.t = "num" -> <<NumTok(v.n)>>
    [] v.t = "str" -> <<StrTok(v.s)>>
    [] v.t = "list" -> <<Punct("[")>> \o DumpItems(v.items) \o <<Punct("]")>>
    [] v.t = "dict" -> <<Punct("{")>> \o DumpMembers(v.d, DictKeys(v.d)) \o <<Punct("}")>>

ParseFail(i) == [ok |-> FALSE, v |-> PyNone, n |-> i]
ParseOk(v, n) == [ok |-> TRUE, v |-> v, n |-> n]

IsPunct(toks, i, c) == i <= Len(toks) /\ toks[i] = Punct(c)

DictSet(d, key, v) == [k \in DOMAIN d \cup {key} |-> IF k = key THEN v ELSE d[k]]

RECURSIVE ParseValue(_, _)
RECURSIVE ParseItems(_, _, _)
RECURSIVE ParseMembers(_, _, _)
ParseItems(toks, i, acc) ==
  LET r == ParseValue(toks, i)
  IN IF ~r.ok THEN ParseFail(i)
     ELSE IF IsPunct(toks, r.n, ",") THEN ParseItems(toks, r.n + 1, Append(acc, r.v))
     ELSE IF IsPunct(toks, r.n, "]") THEN ParseOk(PyList(Append(acc, r.v)), r.n + 1)
     ELSE ParseFail(r.n)

ParseMembers(toks, i, d) ==
  IF ~(i <= Len(toks) /\ toks[i].k = "str" /\ IsPunct(toks, i + 1, ":")) THEN ParseFail(i)
  ELSE LET r == ParseValue(toks, i + 2)
       IN IF ~r.ok THEN ParseFail(i)
          ELSE IF IsPunct(toks, r.n, ",")
               THEN ParseMembers(toks, r.n + 1, DictSet(d, toks[i].v, r.v))
          ELSE IF IsPunct(toks, r.n, "}")
               THEN ParseOk(PyDict(DictSet(d, toks[i].v, r.v)), r.n + 1)
          ELSE ParseFail(r.n)

ParseValue(toks, i) ==
  IF i > Len(toks) THEN ParseFail(i)
  ELSE LET tk == toks[i]
       IN CASE tk.k = "str" -> ParseOk(PyStr(tk.v), i + 1)
            [] tk.k = "num" -> ParseOk(PyNum(tk.n), i + 1)
            [] tk.k = "lit" ->
                 IF tk.v = "null" THEN ParseOk(PyNone, i + 1)
                 ELSE IF tk.v = "true" THEN ParseOk(PyBool(TRUE), i + 1)
                 ELSE IF tk.v = "false" THEN ParseOk(PyBool(FALSE), i + 1)
                 ELSE ParseFail(i)
            [] tk.k = "p" /\ tk.v = "[" ->
                 IF IsPunct(toks, i + 1, "]") THEN ParseOk(PyList(<<>>), i + 2)
                 ELSE ParseItems(toks, i + 1, <<>>)
            [] tk.k = "p" /\ tk.v = "{" ->
                 IF IsPunct(toks, i + 1, "}") THEN ParseOk(PyDict(EmptyDict), i + 2)
                 ELSE ParseMembers(toks, i + 1, EmptyDict)
            [] OTHER -> ParseFail(i)

\* Loads with the decode error swallowed: a malformed text decodes to []
LoadsLenient(value) ==
  IF value.t = "text"
  THEN LET r == ParseValue(value.toks, 1)
       IN IF r.ok /\ r.n = Len(value.toks) + 1 THEN [err |-> "", v |-> r.v]
          ELSE [err |-> "", v |-> PyList(<<>>)]
  ELSE [err |-> "", v |-> PyList(<<>>)]

\* json.loads(value): err = "" and the decoded value, or the exception raised
Loads(value) ==
  IF value.t = "text"
  THEN LET r == ParseValue(value.toks, 1)
       IN IF r.ok /\ r.n = Len(value.toks) + 1 THEN [err |-> "", v |-> r.v]
          ELSE [err |-> "JSONDecodeError", v |-> PyNone]
  ELSE IF value.t = "str" THEN [err |-> "JSONDecodeError", v |-> PyNone]
  ELSE [err |-> "TypeError", v |-> PyNone]

(***************************************************************************)
(* Python operations the filters apply to decoded values.                  *)
(***************************************************************************)
\* `s in expr` for a str s: "yes", "no", or "TypeError" when expr is no container
PyContains(s, expr) ==
  CASE expr.t = "dict" -> IF s \in DOMAIN expr.d THEN "yes" ELSE "no"
    [] expr.t \in {"list", "tuple"} ->
         IF \E i \in DOMAIN expr.items : expr.items[i] = PyStr(s) THEN "yes" ELSE "no"
    [] expr.t = "str" -> IF IsSubstr(s, expr.s) THEN "yes" ELSE "no"
    [] OTHER -> "TypeError"

\* `for expr in value`: the items iterated, or ok = FALSE (TypeError: not iterable)
PyIter(value) ==
  CASE value.t \in {"list", "tuple"} -> [ok |-> TRUE, items |-> value.items]
    [] value.t = "str" ->
         [ok |-> TRUE, items |-> [i \in DOMAIN Chars(value.s) |-> PyStr(Chars(value.s)[i])]]
    [] value.t = "dict" ->
         [ok |-> TRUE, items |-> [i \in DOMAIN DictKeys(value.d) |-> PyStr(DictKeys(value.d)[i])]]
    [] OTHER -> [ok |-> FALSE, items |-> <<>>]

\* hash(x) succeeds: list and dict are unhashable
Hashable(x) == x.t \notin {"list", "dict"}

\* d.get(key, default)
DictGet(d, key, default) == IF key \in DOMAIN d THEN d[key] ELSE default

(***************************************************************************)
(* The stored data and the ORM operations the filters call.                *)
(***************************************************************************)
Models == {"Category", "Document", "File", "Tag"}

\* models.Tag.tag_synonym_group is None
NoGroup == "None"

Meta1(a) == [k \in {"a"} |-> a]
Meta2(a, b) == [k \in {"a", "b"} |-> IF k = "a" THEN a ELSE b]

\* meta of every stored row, by model and primary key
StoredMeta ==
  [Category |-> [c1 |-> Meta2(PyStr("x"), PyStr("xy")), c2 |-> Meta1(PyNum(1)), c3 |-> EmptyDict],
   Document |-> [d1 |-> Meta2(PyStr("x"), PyStr("xy")),
                 d2 |-> Meta2(PyNum(1), PyList(<<PyNum(1), PyNum(2)>>)),
                 d3 |-> Meta2(PyStr("y"), PyStr("x")),
                 d4 |-> EmptyDict],
   File |-> [f1 |-> Meta2(PyStr("x"), PyStr("x")), f2 |-> Meta1(PyStr("xy"))],
   Tag |-> [t1 |-> Meta2(PyStr("x"), PyStr("y")), t2 |-> Meta1(PyNum(1)), t3 |-> EmptyDict]]

DB(doc_tags, tag_group) == [meta |-> StoredMeta, doc_tags |-> doc_tags, tag_group |-> tag_group]

\* the stored data sets a request can meet
DBs ==
  {DB([d1 |-> {"t1"}, d2 |-> {"t2"}, d3 |-> {"t1", "t3"}, d4 |-> {}],
      [t1 |-> "s1", t2 |-> "s1", t3 |-> NoGroup]),
   DB([d1 |-> {"t1", "t2"}, d2 |-> {"t1", "t3"}, d3 |-> {"t2"}, d4 |-> {"t1"}],
      [t1 |-> NoGroup, t2 |-> "s2", t3 |-> "s2"])}

Pks(d, m) == DOMAIN d.meta[m]

\* field_name.split("__")
Split(field_name) ==
  CASE field_name = "documents__meta" -> <<"documents", "meta">>
    [] OTHER -> <<field_name>>

\* model._meta.get_field(field).related_model
RelatedModel(m, field) ==
  CASE m = "Tag" /\ field = "documents" -> "Document"
    [] m = "Document" /\ field = "tags" -> "Tag"
    [] OTHER -> "None"

\* model._meta.get_field(field).get_lookups(): the names of the field's lookups
GetLookups(m, field) ==
  IF m \in Models /\ field = "meta" THEN {"exact", "contains"} ELSE {}

\* a queryset is a lazy query: its model, its WHERE conditions, its annotations
\* and the number of joins it holds to the many-to-many relation `documents`
QuerySet(m, where, annotations, joins) ==
  [model |-> m, where |-> where, annotations |-> annotations, joins |-> joins]

NoAnnotations == [n \in {} |-> PyNone]

\* Model.objects.all()
All(m) == QuerySet(m, <<>>, NoAnnotations, 0)

\* what a raising call leaves in place of a queryset
NoQuerySet == QuerySet("None", <<>>, NoAnnotations, 0)

\* field_name crosses a relation
Traverses(field_name) == Len(Split(field_name)) > 1

\* alias 0 is the queryset's own table, alias k > 0 its k-th join to `documents`
KeyTextTransform(key, field_name) ==
  [e |-> "KeyTextTransform", key |-> key, field |-> field_name, alias |-> 0]
KeyTransform(key, field_name) ==
  [e |-> "KeyTransform", key |-> key, field |-> field_name, alias |-> 0]

\* the alias an annotation's field reference resolves to: a reference across
\* the relation takes the most recent join, and adds one when there is none
AnnotationAlias(q, expr) ==
  IF ~Traverses(expr.field) THEN 0 ELSE IF q.joins > 0 THEN q.joins ELSE 1

\* qs.annotate(name=expr): a new queryset; an annotation of the same name is replaced
Annotate(q, name, expr) ==
  LET resolved == [expr EXCEPT !.alias = AnnotationAlias(q, expr)]
  IN [q EXCEPT !.annotations =
                 [n \in DOMAIN q.annotations \cup {name} |->
                    IF n = name THEN resolved ELSE q.annotations[n]],
               !.joins = IF resolved.alias > @ THEN resolved.alias ELSE @]

\* qs.filter(**{f"{name}__{lookup}": rhs}) where name is an annotation: the
\* condition holds the annotation's expression as resolved at this call
FilterAnnotation(q, name, lookup, rhs) ==
  [q EXCEPT !.where =
     Append(@, [c |-> "lookup", lhs |-> q.annotations[name], lookup |-> lookup, rhs |-> rhs])]

\* qs.filter(**{f"{field_name}__{key}__{lookup}": rhs}): a filter() call across
\* the many-to-many relation joins it anew
FilterKey(q, field_name, key, lookup, rhs) ==
  LET alias == IF Traverses(field_name) THEN q.joins + 1 ELSE 0
  IN [q EXCEPT !.where =
                 Append(@, [c |-> "lookup",
                            lhs |-> [KeyTransform(key, field_name) EXCEPT !.alias = alias],
                            lookup |-> lookup, rhs |-> rhs]),
               !.joins = IF alias > @ THEN alias ELSE @]

\* qs.filter(tags__in=synonyms)
FilterTagsIn(q, synonyms) == [q EXCEPT !.where = Append(@, [c |-> "tags__in", pks |-> synonyms])]

\* qs.filter(tags__pk=key)
FilterTagsPk(q, key) == [q EXCEPT !.where = Append(@, [c |-> "tags__pk", pk |-> key])]

\* the text of a JSON value (the ->> operator); "NULL" for SQL NULL
JsonText(v) ==
  CASE v.t = "str" -> v.s
    [] v.t = "num" -> IF v.n = 1 THEN "1" ELSE "2"
    [] v.t = "bool" -> IF v.b THEN "true" ELSE "false"
    [] v.t = "list" -> "[1, 2]"
    [] OTHER -> "NULL"

\* JSON containment a @> b on the stored values
JsonContains(a, b) ==
  IF a.t = "list" /\ b.t = "list"
  THEN \A i \in DOMAIN b.items : \E j \in DOMAIN a.items : a.items[j] = b.items[i]
  ELSE IF a.t = "list" THEN \E j \in DOMAIN a.items : a.items[j] = b
  ELSE a = b

\* one row's meta against one lookup condition
MetaMatches(meta, cond) ==
  LET key == cond.lhs.key
  IN /\ key.t = "str"
     /\ key.s \in DOMAIN meta
     /\ IF cond.lhs.e = "KeyTextTransform"
        THEN /\ JsonText(meta[key.s]) # "NULL"
             /\ cond.rhs.t = "str"
             /\ IF cond.lookup = "exact" THEN JsonText(meta[key.s]) = cond.rhs.s
                ELSE IsSubstr(cond.rhs.s, JsonText(meta[key.s]))
        ELSE IF cond.lookup = "exact" THEN meta[key.s] = cond.rhs
             ELSE JsonContains(meta[key.s], cond.rhs)

\* the documents related to a tag
DocumentsOf(d, pk) == {doc \in Pks(d, "Document") : pk \in d.doc_tags[doc]}

\* one row against one condition, with the document each join is at
RowMatches(d, m, pk, cond, joined) ==
  CASE cond.c = "lookup" ->
         MetaMatches(IF cond.lhs.alias = 0 THEN d.meta[m][pk]
                     ELSE d.meta["Document"][joined[cond.lhs.alias]], cond)
    [] cond.c = "tags__in" -> m = "Document" /\ d.doc_tags[pk] \cap cond.pks # {}
    [] cond.c = "tags__pk" -> m = "Document" /\ cond.pk \in d.doc_tags[pk]

\* the rows a queryset yields when it is evaluated
Eval(d, q) ==
  IF q.model \notin Models THEN {}
  ELSE {pk \in Pks(d, q.model) :
          \E joined \in [1..q.joins -> IF q.joins = 0 THEN {} ELSE DocumentsOf(d, pk)] :
            \A i \in DOMAIN q.where : RowMatches(d, q.model, pk, q.where[i], joined)}

(***************************************************************************)
(* The filters.  A call yields its outcome ("return" or the exception      *)
(* raised), the queryset returned, the error message, and the steps the    *)
(* call performed.                                                         *)
(***************************************************************************)
Return(q, steps) == [outcome |-> "return", qs |-> q, msg |-> "", steps |-> steps]
Raise(exc, msg, steps) == [outcome |-> exc, qs |-> NoQuerySet, msg |-> msg, steps |-> steps]

\* JSONValueFilter._valid_lookups
ValidLookups(self, q) ==
  LET traversals == Split(self.field_name)
      actual_field == traversals[Len(traversals)]
      Walk[i \in 0..(Len(traversals) - 1)] ==
        IF i = 0 THEN q.model ELSE RelatedModel(Walk[i - 1], traversals[i])
  IN GetLookups(Walk[Len(traversals) - 1], actual_field)

\* Tolerant without the wrapping of a bare object
TolerantNot(value) == value

\* `if isinstance(value, dict): value = [value]`
Tolerant(value) == IF value.t = "dict" THEN PyList(<<value>>) ELSE value

\* expr.get("lookup", self.lookup_expr)
LookupExpr(self, expr) == DictGet(expr.d, "lookup", PyStr(self.lookup_expr))

\* lines 47-56: the queryset filtered by one validated expression
ApplyExpr(self, q, expr, lookup_expr) ==
  IF expr.d["value"].t = "str"
  THEN FilterAnnotation(Annotate(q, "field_val", KeyTextTransform(expr.d["key"], self.field_name)),
                        "field_val", lookup_expr, expr.d["value"])
  ELSE FilterKey(q, self.field_name, expr.d["key"], lookup_expr, expr.d["value"])

\* the body of `for expr in value`, from position i of the iterated items
RECURSIVE ExprLoop(_, _, _, _, _, _)
ExprLoop(self, valid_lookups, items, i, q, steps) ==
  IF i > Len(items) THEN Return(q, steps)
  ELSE LET expr == items[i]
       IN IF IsEmpty(expr) THEN ExprLoop(self, valid_lookups, items, i + 1, q, steps)
          ELSE IF "TypeError" \in {PyContains("key", expr), PyContains("value", expr)}
               THEN Raise("TypeError", "", steps)
          ELSE IF ~(PyContains("key", expr) = "yes" /\ PyContains("value", expr) = "yes")
               THEN Raise("ValidationError", "key_value", steps)
          ELSE IF expr.t # "dict" THEN Raise("AttributeError", "", steps)
          ELSE LET lookup_expr == LookupExpr(self, expr)
               IN IF ~Hashable(lookup_expr) THEN Raise("TypeError", "", steps)
                  ELSE IF ~(lookup_expr.t = "str" /\ lookup_expr.s \in valid_lookups)
                       THEN Raise("ValidationError", "lookup_not_allowed", steps)
                  ELSE ExprLoop(self, valid_lookups, items, i + 1,
                                ApplyExpr(self, q, expr, lookup_expr.s),
                                steps \cup {"qs.filter"})

\* JSONValueFilter.filter
JSONValueFilter_filter(self, q, value) ==
  IF IsEmpty(value) THEN Return(q, {})
  ELSE LET valid_lookups == ValidLookups(self, q)
           decoded == Loads(value)
           steps == {"_valid_lookups", "json.loads"}
       IN IF decoded.err = "JSONDecodeError" THEN Raise("ValidationError", "json_encoded", steps)
          ELSE IF decoded.err # "" THEN Raise(decoded.err, "", steps)
          ELSE LET it == PyIter(Tolerant(decoded.v))
               IN IF ~it.ok THEN Raise("TypeError", "", steps)
                  ELSE ExprLoop(self, valid_lookups, it.items, 1, q, steps)

\* NotInGroups with the membership test inverted
NotInGroupsInverted(value, groups) == value.t = "str" /\ value.s \in groups

\* `value not in self.parent.request.user.groups`
NotInGroups(value, groups) == ~(value.t = "str" /\ value.s \in groups)

\* ActiveGroupFilter.filter
ActiveGroupFilter_filter(q, value, groups) ==
  IF IsEmpty(value) THEN Return(q, {})
  ELSE IF NotInGroups(value, groups)
       THEN Raise("ValidationError", "active_group", {"user.groups"})
  ELSE Return(q, {"user.groups"})

\* TagGet as get_or_create: a missing tag is stored and found
TagGetOrCreate(d, key) ==
  IF key.t = "str" /\ key.s \notin Pks(d, "Tag")
  THEN [found |-> TRUE,
        db |-> [d EXCEPT !.meta = [@ EXCEPT !.Tag = DictSet(@, key.s, EmptyDict)],
                         !.tag_group = DictSet(@, key.s, NoGroup)]]
  ELSE [found |-> key.t = "str", db |-> d]

\* models.Tag.objects.get(pk=key): whether the tag is found (DoesNotExist
\* otherwise), and the stored data after the query
TagGet(d, key) == [found |-> key.t = "str" /\ key.s \in Pks(d, "Tag"), db |-> d]

\* tag_obj.tag_synonym_group.tags.all()
Synonyms(d, group) == {t \in Pks(d, "Tag") : d.tag_group[t] = group}

\* ApplyTag without the synonyms: the tag itself must be carried
ApplyTagNoSynonyms(d, q, key) == FilterTagsPk(q, key)

\* lines 90-95: the queryset filtered by one stored tag
ApplyTag(d, q, key) ==
  IF d.tag_group[key] # NoGroup
  THEN IF Synonyms(d, d.tag_group[key]) # {}
       THEN FilterTagsIn(q, Synonyms(d, d.tag_group[key]))
       ELSE q
  ELSE FilterTagsPk(q, key)

\* the outcome of a call together with the stored data it leaves
WithDb(r, d) == [outcome |-> r.outcome, qs |-> r.qs, msg |-> r.msg, steps |-> r.steps, db |-> d]

\* TagLoop that passes over a key naming no stored tag
RECURSIVE TagLoopSkipMissing(_, _, _, _, _)
TagLoopSkipMissing(d, keys, i, q, steps) ==
  IF i > Len(keys) THEN WithDb(Return(q, steps), d)
  ELSE LET got == TagGet(d, keys[i])
       IN IF ~got.found
          THEN TagLoopSkipMissing(got.db, keys, i + 1, q, steps \cup {"Tag.objects.get"})
          ELSE TagLoopSkipMissing(got.db, keys, i + 1, ApplyTag(got.db, q, keys[i].s),
                                  steps \cup {"Tag.objects.get"})

\* the body of `for key in value`, from position i
RECURSIVE TagLoop(_, _, _, _, _)
TagLoop(d, keys, i, q, steps) ==
  IF i > Len(keys) THEN WithDb(Return(q, steps), d)
  ELSE LET got == TagGet(d, keys[i])
       IN IF ~got.found
          THEN WithDb(Raise("DoesNotExist", "", steps \cup {"Tag.objects.get"}), got.db)
          ELSE TagLoop(got.db, keys, i + 1, ApplyTag(got.db, q, keys[i].s),
                       steps \cup {"Tag.objects.get"})

\* TagsFilter.filter
TagsFilter_filter(d, q, value) ==
  IF IsEmpty(value) THEN WithDb(Return(q, {}), d)
  ELSE LET it == PyIter(value)
       IN IF ~it.ok THEN WithDb(Raise("TypeError", "", {}), d)
          ELSE TagLoop(d, it.items, 1, q, {})

(***************************************************************************)
(* The FilterSets: the filters the framework calls, in declaration order,  *)
(* on the queryset of the FilterSet's model.                               *)
(***************************************************************************)
FilterDecl(cls, name, field_name) ==
  [cls |-> cls, name |-> name, field_name |-> field_name, lookup_expr |-> "exact"]

MetaDecl == FilterDecl("JSONValueFilter", "meta", "meta")
ActiveGroupDecl == FilterDecl("ActiveGroupFilter", "active_group", "active_group")

CategoryFilterSet == <<MetaDecl, ActiveGroupDecl>>
DocumentFilterSet == <<MetaDecl, ActiveGroupDecl, FilterDecl("TagsFilter", "tags", "tags")>>
FileFilterSet == <<MetaDecl, ActiveGroupDecl>>
TagFilterSet ==
  <<MetaDecl, ActiveGroupDecl,
    FilterDecl("JSONValueFilter", "with_documents_meta", "documents__meta")>>

FilterSetOf(m) ==
  CASE m = "Category" -> CategoryFilterSet
    [] m = "Document" -> DocumentFilterSet
    [] m = "File" -> FileFilterSet
    [] m = "Tag" -> TagFilterSet

(***************************************************************************)
(* The inputs of the model: what a request can carry.                      *)
(***************************************************************************)
KV(k, v) == [x \in {"key", "value"} |-> IF x = "key" THEN k ELSE v]
KVL(k, v, l) == DictSet(KV(k, v), "lookup", l)

\* expressions the filter accepts
ValidExprs ==
  {PyDict(KV(PyStr("a"), PyStr("x"))),
   PyDict(KVL(PyStr("b"), PyStr("x"), PyStr("contains"))),
   PyDict(KVL(PyStr("a"), PyNum(1), PyStr("exact"))),
   PyDict(KVL(PyStr("b"), PyList(<<PyNum(1)>>), PyStr("contains")))}

\* objects that lack an entry or name a lookup the field does not have
InvalidExprs ==
  {PyDict([x \in {"key"} |-> PyStr("a")]),
   PyDict([x \in {"value", "lookup"} |-> IF x = "value" THEN PyStr("x") ELSE PyStr("exact")]),
   PyDict(KVL(PyStr("a"), PyStr("x"), PyStr("bogus"))),
   PyDict(KVL(PyStr("a"), PyStr("x"), PyNone)),
   PyDict(KVL(PyStr("a"), PyStr("x"), PyList(<<PyStr("exact")>>)))}

\* JSON values that are no object
NonObjects == {PyNum(1), PyStr("keyvalue"), PyList(<<PyStr("key")>>)}

\* elements the loop skips
EmptyElements == {PyNone, PyDict(EmptyDict)}

Elements == ValidExprs \cup InvalidExprs \cup NonObjects \cup EmptyElements

ListsUpTo(S, n) == UNION {[1..k -> S] : k \in 0..n}

\* texts json.loads rejects
Malformed ==
  {PyText(<<Punct("{")>>),
   PyText(<<LitTok("bogus")>>),
   PyText(<<Punct("["), NumTok(1), Punct(","), Punct("]")>>),
   PyText(<<Punct("{"), StrTok("key"), StrTok("a"), Punct("}")>>),
   PyText(<<Punct("{"), StrTok("key"), Punct(":"), StrTok("a"), Punct(","),
            StrTok("value"), Punct(":"), StrTok("x")>>),
   PyText(<<NumTok(1), NumTok(1)>>)}

\* the values a request can hand to a JSONValueFilter, with at most n list elements
JSONValues(n) ==
  EMPTY_VALUES \cup Malformed
    \cup {PyText(Dumps(v)) : v \in Elements \cup {PyList(l) : l \in ListsUpTo(Elements, n)}}

Groups == {"g1", "g2", "g3"}

\* request.user.groups of the users that send requests
Users == {{"g1", "g2"}, {}}

ActiveGroupValues == EMPTY_VALUES \cup {PyStr(g) : g \in Groups}

\* primary keys a tags parameter can name; "t9" names no stored tag
TagKeys == {"t1", "t2", "t3", "t9"}

TagsValues == EMPTY_VALUES \cup {PyList(l) : l \in ListsUpTo({PyStr(k) : k \in TagKeys}, MaxTagKeys)}

(***************************************************************************)
(* The state machine: a request walks the FilterSet of its model.          *)
(***************************************************************************)
NoCall ==
  [cls |-> "None", self |-> MetaDecl, qs_in |-> NoQuerySet, value |-> PyNone,
   outcome |-> "", msg |-> "", qs_out |-> NoQuerySet, steps |-> {}]

Call(self, q, value, r) ==
  [cls |-> self.cls, self |-> self, qs_in |-> q, value |-> value,
   outcome |-> r.outcome, msg |-> r.msg, qs_out |-> r.qs, steps |-> r.steps]

Init ==
  /\ db \in DBs
  /\ user \in Users
  /\ model \in Models
  /\ pc = 1
  /\ qs = All(model)
  /\ last = NoCall

Running == pc \in 1..Len(FilterSetOf(model))

\* the framework's bookkeeping after a filter call: go on, or abort the request
Step(self, value, r) ==
  /\ last' = Call(self, qs, value, r)
  /\ IF r.outcome = "return" THEN qs' = r.qs /\ pc' = pc + 1
     ELSE qs' = qs /\ pc' = 0

JSONValueFilterCall ==
  /\ Running
  /\ FilterSetOf(model)[pc].cls = "JSONValueFilter"
  /\ \E value \in JSONValues(MaxExprs - Len(qs.where)) :
       Step(FilterSetOf(model)[pc], value, JSONValueFilter_filter(FilterSetOf(model)[pc], qs, value))
  /\ UNCHANGED <<db, user, model>>

ActiveGroupFilterCall ==
  /\ Running
  /\ FilterSetOf(model)[pc].cls = "ActiveGroupFilter"
  /\ \E value \in ActiveGroupValues :
       Step(FilterSetOf(model)[pc], value, ActiveGroupFilter_filter(qs, value, user))
  /\ UNCHANGED <<db, user, model>>

TagsFilterCall ==
  /\ Running
  /\ FilterSetOf(model)[pc].cls = "TagsFilter"
  /\ \E value \in TagsValues :
       /\ Step(FilterSetOf(model)[pc], value, TagsFilter_filter(db, qs, value))
       /\ db' = TagsFilter_filter(db, qs, value).db
  /\ UNCHANGED <<user, model>>

\* the request is over (served or aborted); the next one arrives
NewRequest ==
  /\ ~Running
  /\ \E m \in Models, u \in Users :
       /\ model' = m
       /\ user' = u
       /\ qs' = All(m)
  /\ pc' = 1
  /\ last' = NoCall
  /\ UNCHANGED db

Next == JSONValueFilterCall \/ ActiveGroupFilterCall \/ TagsFilterCall \/ NewRequest

Spec == Init /\ [][Next]_vars

(***************************************************************************)
(* Properties.                                                             *)
(***************************************************************************)
\* the value json.loads gave the last call
Decoded == Loads(last.value).v

\* the expressions of a decoded value: the object itself, or the list's items
ElementsOf(v) == IF v.t = "dict" THEN <<v>> ELSE IF v.t = "list" THEN v.items ELSE <<>>

IsJsonCall == last.cls = "JSONValueFilter" /\ last.value.t = "text" /\ last.value \notin Malformed

\* C1: a JSONValueFilter call with a non-empty value that is no valid JSON text
\* raises the validation error "JSONValueFilter value needs to be json
\* encoded.", returns no queryset and applies no filter to the queryset.
C1_MalformedJsonIsValidationError ==
  (last.cls = "JSONValueFilter" /\ last.value \in Malformed) =>
    /\ last.outcome = "ValidationError"
    /\ last.msg = "json_encoded"
    /\ last.qs_out = NoQuerySet
    /\ "qs.filter" \notin last.steps
    /\ qs = last.qs_in

C1_Witness ==
  /\ last.cls = "JSONValueFilter"
  /\ last.value = PyText(<<Punct("["), NumTok(1), Punct(","), Punct("]")>>)
  /\ last.outcome = "ValidationError"

\* an element that is not empty and has no "key" entry or no "value" entry
LacksKeyOrValue(e) == e \notin EMPTY_VALUES /\ ~(e.t = "dict" /\ {"key", "value"} \subseteq DOMAIN e.d)

\* C2: a JSONValueFilter call whose value decodes to an expression or a list of
\* expressions, of whatever JSON type, one of which is not empty and lacks
\* "key" or "value", raises the validation error and no other failure.
C2_MissingKeyOrValueIsValidationError ==
  (/\ IsJsonCall
   /\ Decoded.t \in {"dict", "list"}
   /\ \E i \in DOMAIN ElementsOf(Decoded) : LacksKeyOrValue(ElementsOf(Decoded)[i])) =>
    /\ last.outcome = "ValidationError"
    /\ last.qs_out = NoQuerySet

HasKeyAndValue(e) == e.t = "dict" /\ {"key", "value"} \subseteq DOMAIN e.d

\* the expression's "lookup" entry when present, the filter's lookup_expr otherwise
EffectiveLookup(self, e) ==
  IF "lookup" \in DOMAIN e.d THEN e.d["lookup"] ELSE PyStr(self.lookup_expr)

\* the lookups of the field that field_name ends in
TargetLookups(m, self) ==
  IF self.field_name = "documents__meta" THEN GetLookups(RelatedModel(m, "documents"), "meta")
  ELSE GetLookups(m, self.field_name)

LookupAllowed(m, self, e) ==
  /\ EffectiveLookup(self, e).t = "str"
  /\ EffectiveLookup(self, e).s \in TargetLookups(m, self)

\* C3: a JSONValueFilter call whose expressions all have "key" and "value"
\* raises the validation error and returns no queryset if the effective lookup
\* of one of them is not among the lookups of the target field, and raises no
\* validation error if all of them are.
C3_DisallowedLookupIsValidationError ==
  (/\ IsJsonCall
   /\ ElementsOf(Decoded) # <<>>
   /\ \A i \in DOMAIN ElementsOf(Decoded) : HasKeyAndValue(ElementsOf(Decoded)[i])) =>
    IF \E i \in DOMAIN ElementsOf(Decoded) : ~LookupAllowed(model, last.self, ElementsOf(Decoded)[i])
    THEN last.outcome = "ValidationError" /\ last.msg = "lookup_not_allowed" /\ last.qs_out = NoQuerySet
    ELSE last.outcome # "ValidationError"

\* C4: an ActiveGroupFilter call raises the validation error exactly when the
\* value is not empty and is none of the user's groups; otherwise it returns
\* the queryset it was given, with the same rows.
C4_ActiveGroupRaisesExactlyForForeignGroup ==
  last.cls = "ActiveGroupFilter" =>
    IF last.value \notin EMPTY_VALUES /\ ~(last.value.t = "str" /\ last.value.s \in user)
    THEN last.outcome = "ValidationError" /\ last.msg = "active_group" /\ last.qs_out = NoQuerySet
    ELSE /\ last.outcome = "return"
         /\ last.qs_out = last.qs_in
         /\ qs = last.qs_in
         /\ Eval(db, last.qs_out) = Eval(db, last.qs_in)

C4_Witness ==
  /\ last.cls = "ActiveGroupFilter"
  /\ user = {"g1", "g2"}
  /\ last.value = PyStr("g3")
  /\ last.outcome = "ValidationError"
  /\ Len(last.qs_in.where) > 0

\* C5: no step of any sequence of filter calls, returning or raising, changes
\* the stored rows, their meta values, tag assignments or synonym groups.
C5_StoredDataUnchanged == [][db' = db]_vars

C5_Witness ==
  /\ last.cls = "TagsFilter"
  /\ last.outcome = "DoesNotExist"
  /\ Len(last.value.items) > 1
  /\ Len(last.qs_in.where) > 0

\* the document carries the tag or a tag of the tag's synonym group
CarriesTagOrSynonym(d, doc, key) ==
  \E t \in d.doc_tags[doc] :
    t = key \/ (d.tag_group[key] # NoGroup /\ d.tag_group[t] = d.tag_group[key])

IsStoredTagsCall ==
  /\ last.cls = "TagsFilter"
  /\ last.value.t = "list"
  /\ last.value.items # <<>>
  /\ \A i \in DOMAIN last.value.items : last.value.items[i].s \in Pks(db, "Tag")

\* C6: a TagsFilter call with a non-empty list of keys of stored tags returns
\* exactly the documents of the input queryset that carry, for every key, the
\* tag or one of its synonyms.
C6_TagsFilterKeepsDocumentsWithEveryTag ==
  IsStoredTagsCall =>
    /\ last.outcome = "return"
    /\ Eval(db, last.qs_out) =
         {doc \in Eval(db, last.qs_in) :
            \A i \in DOMAIN last.value.items : CarriesTagOrSynonym(db, doc, last.value.items[i].s)}

C6_Witness ==
  /\ IsStoredTagsCall
  /\ Len(last.value.items) > 1
  /\ \E doc \in Eval(db, last.qs_out) :
       \E i \in DOMAIN last.value.items : last.value.items[i].s \notin db.doc_tags[doc]
  /\ Eval(db, last.qs_out) # Eval(db, last.qs_in)

\* C7: a JSONValueFilter call with the encoding of an expression object e has
\* the outcome (rows, or error) of the call with the encoding of the list [e].
C7_BareObjectIsOneElementList ==
  \A e \in {x \in Elements : x.t = "dict"} :
    (last.cls = "JSONValueFilter" /\ last.value = PyText(Dumps(e))) =>
      LET r == JSONValueFilter_filter(last.self, last.qs_in, PyText(Dumps(PyList(<<e>>))))
      IN /\ r.outcome = last.outcome
         /\ r.msg = last.msg
         /\ Eval(db, r.qs) = Eval(db, last.qs_out)

C7_Witness ==
  /\ last.cls = "JSONValueFilter"
  /\ \E e \in ValidExprs : last.value = PyText(Dumps(e))
  /\ last.outcome = "return"
  /\ Eval(db, last.qs_out) # Eval(db, last.qs_in)

\* the metas a row offers for field_name: its own, or those of the documents
\* related to it
MetasOf(d, m, pk, field_name) ==
  IF Traverses(field_name) THEN {d.meta["Document"][doc] : doc \in DocumentsOf(d, pk)}
  ELSE {d.meta[m][pk]}

\* the row satisfies the expression: some meta the row offers for field_name
\* has the key, and its value stands in the lookup's relation to the
\* expression's value (as text for a str value, as JSON otherwise)
Satisfies(d, m, pk, self, e) ==
  LET k == e.d["key"].s
      v == e.d["value"]
      lookup == EffectiveLookup(self, e).s
  IN \E meta \in MetasOf(d, m, pk, self.field_name) :
       /\ k \in DOMAIN meta
       /\ IF v.t = "str"
          THEN IF lookup = "exact" THEN JsonText(meta[k]) = v.s
               ELSE IsSubstr(v.s, JsonText(meta[k]))
          ELSE IF lookup = "exact" THEN meta[k] = v
               ELSE JsonContains(meta[k], v)

Perms(n) == {p \in [1..n -> 1..n] : \A i, j \in 1..n : p[i] = p[j] => i = j}

\* the filter applied once per expression, in sequence
RECURSIVE OneByOne(_, _, _, _)
OneByOne(self, q, items, i) ==
  IF i > Len(items) THEN q
  ELSE OneByOne(self, JSONValueFilter_filter(self, q, PyText(Dumps(PyList(<<items[i]>>)))).qs,
                items, i + 1)

IsValidListCall ==
  /\ IsJsonCall
  /\ Decoded.t = "list"
  /\ Decoded.items # <<>>
  /\ \A i \in DOMAIN Decoded.items : Decoded.items[i] \in ValidExprs

\* the last call kept exactly the rows that satisfy every expression of its
\* list, as it does for every ordering of the list and when the filter is
\* applied once per expression in sequence
ListIsConjunction ==
  LET items == Decoded.items
  IN /\ last.outcome = "return"
     /\ Eval(db, last.qs_out) =
          {pk \in Eval(db, last.qs_in) :
             \A i \in DOMAIN items : Satisfies(db, model, pk, last.self, items[i])}
     /\ \A p \in Perms(Len(items)) :
          Eval(db, JSONValueFilter_filter(last.self, last.qs_in,
                     PyText(Dumps(PyList([i \in DOMAIN items |-> items[p[i]]])))).qs)
            = Eval(db, last.qs_out)
     /\ Eval(db, OneByOne(last.self, last.qs_in, items, 1)) = Eval(db, last.qs_out)

\* C8: a JSONValueFilter call with a list of valid expressions returns exactly
\* the rows of the input queryset that satisfy every expression; the rows are
\* the same for every ordering of the list and for the filter applied once per
\* expression in sequence.
C8_ListIsConjunction == IsValidListCall => ListIsConjunction

\* The same for the filters whose field_name is a field of the queryset's own
\* model (meta), where no join is made.
OwnFieldListIsConjunction ==
  (IsValidListCall /\ ~Traverses(last.self.field_name)) => ListIsConjunction

\* C9: a call of any of the three filters with None, "", [], () or {} returns
\* the input queryset unchanged, raises nothing and performs no validation,
\* no group check and no tag lookup.
C9_EmptyValueReturnsInput ==
  (/\ last.cls \in {"JSONValueFilter", "ActiveGroupFilter", "TagsFilter"}
   /\ last.value \in {PyNone, PyStr(""), PyList(<<>>), PyTuple(<<>>), PyDict(EmptyDict)}) =>
    /\ last.outcome = "return"
    /\ last.msg = ""
    /\ last.qs_out = last.qs_in
    /\ qs = last.qs_in
    /\ last.steps = {}

C9_Witness ==
  /\ last.cls = "JSONValueFilter"
  /\ last.value = PyStr("")
  /\ last.outcome = "return"
  /\ Len(last.qs_in.where) > 0

\* C10: a TagsFilter call with a list in which some key names no stored tag
\* fails with the tag lookup's DoesNotExist, not the validation error, and
\* returns no queryset, whatever the other keys are.
C10_UnknownTagIsDoesNotExist ==
  (/\ last.cls = "TagsFilter"
   /\ last.value.t = "list"
   /\ \E i \in DOMAIN last.value.items : last.value.items[i].s \notin Pks(db, "Tag")) =>
    /\ last.outcome = "DoesNotExist"
    /\ last.qs_out = NoQuerySet
    /\ qs = last.qs_in

C10_Witness ==
  /\ last.cls = "TagsFilter"
  /\ last.value = PyList(<<PyStr("t1"), PyStr("t9")>>)
  /\ last.outcome = "DoesNotExist"

====
